---- MODULE Spec2Model ----
(***************************************************************************)
(* Model of the rating-anomaly service of src/src/main.rs: the append-only *)
(* ratings table, the incremental path (add_interaction /                  *)
(* process_interaction), the batch path (get_stats) and the read-through    *)
(* path (get_all_interactions).                                             *)
(*                                                                          *)
(* Every handler runs its storage work in a blocking task; the table is     *)
(* the only state shared between requests.  add_interaction is split        *)
(* between its INSERT and its SELECT, where any other request may run;      *)
(* get_stats and get_all_interactions touch the table once and are one      *)
(* step each.                                                               *)
(*                                                                          *)
(* Numbers.  Ratings are f32 in the program.  The model draws ratings from  *)
(* RatingValues (small integers, exactly representable) and evaluates       *)
(* sum / count, the variance and the comparison against the square root in  *)
(* exact rational arithmetic: a quotient is a pair (num, den), a square     *)
(* root is kept as its radicand, NaN is a flag.  On HarnessRatings (which   *)
(* contains RatingValues), with up to 7 ratings folded into one accumulator *)
(* in any order, the verdicts so computed are the verdicts of the IEEE-754  *)
(* binary32 evaluation of the same expressions: where a rating lies exactly *)
(* two standard deviations from the mean, mean, variance and root are       *)
(* exactly representable.                                                   *)
(*                                                                          *)
(* Rows.  A SELECT returns the rows in insertion order.  Each statement is  *)
(* its own transaction (no BEGIN in the program), so a SELECT sees every    *)
(* row whose INSERT has returned.                                           *)
(*                                                                          *)
(* History.  Under SpecAudit the ghost record told keeps, for each call of  *)
(* add_interaction, the calls in flight when its INSERT returned, the       *)
(* number of ratings its SELECT returned and the status it answered.  The   *)
(* record is written by the handlers' own steps and read by no guard.       *)
(*                                                                          *)
(* Binary32.  SpecFloat runs get_stats and process_interaction over tables  *)
(* of up to MaxRows rows whose ratings are binary32 values (F32Ratings),    *)
(* with +, -, *, /, sqrt and > computed bit for bit as IEEE-754 round to    *)
(* nearest even does: a value is a significand and an exponent, or an       *)
(* infinity, or NaN.  The rows reach get_stats in the table's order or with *)
(* two neighbours exchanged (the SELECT has no ORDER BY), the sources in    *)
(* any order (HashMap iteration).                                           *)
(***************************************************************************)
EXTENDS Integers, Sequences, FiniteSets, TLC

\* ---------------------------------------------------------------- bounds
MaxLog == 2          \* rows the ratings table can hold
MaxHist == 5         \* longest rating history of the classifier harness
MaxRows == 3         \* rows of the table of the binary32 harness

Workers == {"w1", "w2"}      \* concurrent add_interaction requests
Entities == {1, 2}           \* source / target ids
Epochs == {0, 1}             \* values of EXTRACT(EPOCH FROM NOW())::bigint
RatingValues == {2, 7}       \* ratings submitted
HarnessRatings == {-3, 2, 7} \* ratings of the classifier harness

\* ------------------------------------------------------- program constants
THRESHOLD_MULTIPLE == 2
FIXED_THRESHOLD == 2

VARIABLES
    log,        \* the ratings table, in insertion order
    ipc,        \* add_interaction: where each worker's request stands
    req,        \* add_interaction: the NewInteraction of each request
    own,        \* add_interaction: position in log of the row the request inserted (0: none)
    out,        \* the response sent by the step just taken, with what its handler held
    cpc,        \* classifier harness: position
    cHist,      \* classifier harness: the ratings folded into the baseline
    cRating,    \* classifier harness: the rating judged
    cBase,      \* classifier harness: the baseline (mean, std_dev)
    cIngest,    \* classifier harness: verdict of the incremental rule
    cBatch,     \* classifier harness: verdict of the batch rule
    fl,         \* binary32 harness: the table, the request run on it and what it computed
    audit,      \* whether the answers of add_interaction are kept (fixed by the initial state)
    told        \* with audit: per row of log, what its request was answered and when it read

ivars == <<ipc, req, own>>
cvars == <<cpc, cHist, cRating, cBase, cIngest, cBatch, fl>>
hvars == <<audit, told>>
vars == <<log, ivars, out, cvars, hvars>>

\* ------------------------------------------------------------- arithmetic
Abs(n) == IF n < 0 THEN -n ELSE n

RECURSIVE Gcd(_, _)
Gcd(a, b) == IF b = 0 THEN a ELSE Gcd(b, a % b)

\* an f32 that is a quotient of integers (in lowest terms, so that equal values are equal), or NaN
Rat(n, d) ==
    LET g == Gcd(Abs(n), d)
    IN [nan |-> FALSE, num |-> n \div g, den |-> d \div g]
NaN == [nan |-> TRUE, num |-> 0, den |-> 1]
\* an f32 that is the square root of num / den (NaN when the radicand is negative or NaN)
Root(v) == [nan |-> v.nan \/ v.num < 0, num |-> v.num, den |-> v.den]
ZeroRoot == [nan |-> FALSE, num |-> 0, den |-> 1]

\* sum / count as f32: 0.0 / 0.0 is NaN
FDiv(n, c) == IF c = 0 THEN NaN ELSE Rat(n, c)

\* (sum_sq / count) - mean * mean
Variance(sum, sum_sq, count) ==
    IF count = 0 THEN NaN ELSE Rat(count * sum_sq - sum * sum, count * count)

\* std_dev == 0.0 (false for NaN)
IsZero(s) == ~s.nan /\ s.num = 0

\* (rating - mean).abs() > THRESHOLD_MULTIPLE * std_dev (false when either side is NaN)
DiffExceeds(rating, m, s) ==
    /\ ~m.nan
    /\ ~s.nan
    /\ (rating * m.den - m.num) * (rating * m.den - m.num) * s.den
         > THRESHOLD_MULTIPLE * THRESHOLD_MULTIPLE * s.num * m.den * m.den

\* ------------------------------------------------------------ binary32
\* An f32 of the program, bit for bit: (-1)^neg * m * 2^e with m < 2^24, where
\* m >= 2^23 (normal) or e = -149 (subnormal, zero: m = 0); or an infinity; or
\* NaN.  The zero is kept without its sign (-0.0 == 0.0, and no operation of
\* the program tells them apart).  Every operation rounds to nearest, ties to
\* even, as the hardware does.
F32Nan == [k |-> "nan", neg |-> FALSE, m |-> 0, e |-> 0]
F32Inf(neg) == [k |-> "inf", neg |-> neg, m |-> 0, e |-> 0]
F32Zero == [k |-> "num", neg |-> FALSE, m |-> 0, e |-> -149]
F32Num(neg, m, e) == [k |-> "num", neg |-> neg, m |-> m, e |-> e]

RECURSIVE BitLen(_)
BitLen(n) == IF n = 0 THEN 0 ELSE 1 + BitLen(n \div 2)

\* n with its lowest bit set when bits were dropped below it
Jam(n, dropped) == IF dropped /\ n % 2 = 0 THEN n + 1 ELSE n

\* the f32 nearest to M * 2^e (ties to even); M < 2^31.  Where M stands for a
\* value with more bits, its lowest bit is the jam of the bits dropped and lies
\* at least two places below the 24 kept.
F32Round(neg, M, e) ==
    IF M = 0 THEN F32Zero
    ELSE LET nb == BitLen(M)
             under == -149 - e
             sh == IF nb - 24 > under THEN nb - 24 ELSE under
         IN IF sh <= 0
            THEN LET room == IF 24 - nb < e + 149 THEN 24 - nb ELSE e + 149
                     ex == e - room
                 IN IF ex > 104 THEN F32Inf(neg) ELSE F32Num(neg, M * 2^room, ex)
            ELSE IF sh > nb THEN F32Zero
            ELSE IF sh = nb
            THEN IF M > 2^(nb - 1) THEN F32Num(neg, 1, -149) ELSE F32Zero
            ELSE LET q == M \div 2^sh
                     r == M % 2^sh
                     half == 2^(sh - 1)
                     up == r > half \/ (r = half /\ q % 2 = 1)
                     q1 == IF up THEN q + 1 ELSE q
                     m1 == IF q1 = 16777216 THEN 8388608 ELSE q1
                     e1 == IF q1 = 16777216 THEN e + sh + 1 ELSE e + sh
                 IN IF m1 = 0 THEN F32Zero
                    ELSE IF e1 > 104 THEN F32Inf(neg)
                    ELSE F32Num(neg, m1, e1)

\* n as f32 (count as f32; the literals 2.0 and 0.0)
F32OfInt(n) == F32Round(n < 0, IF n < 0 THEN -n ELSE n, 0)

F32Neg(a) == IF a.k = "nan" \/ (a.k = "num" /\ a.m = 0) THEN a ELSE [a EXCEPT !.neg = ~a.neg]
F32Abs(a) == IF a.k = "nan" THEN a ELSE [a EXCEPT !.neg = FALSE]

\* a + b
F32Add(a, b) ==
    IF a.k = "nan" \/ b.k = "nan" THEN F32Nan
    ELSE IF a.k = "inf"
    THEN IF b.k = "inf" /\ b.neg # a.neg THEN F32Nan ELSE a
    ELSE IF b.k = "inf" THEN b
    ELSE IF a.m = 0 THEN b
    ELSE IF b.m = 0 THEN a
    ELSE LET x == IF a.e >= b.e THEN a ELSE b
             y == IF a.e >= b.e THEN b ELSE a
             d == x.e - y.e
             A == x.m * 16
             B0 == y.m * 16
             B == IF d >= 29 THEN 1 ELSE Jam(B0 \div 2^d, B0 % 2^d # 0)
             S == (IF x.neg THEN -A ELSE A) + (IF y.neg THEN -B ELSE B)
         IN F32Round(S < 0, IF S < 0 THEN -S ELSE S, x.e - 4)

\* a - b
F32Sub(a, b) == F32Add(a, F32Neg(b))

\* a * b for a, b < 2^26, as hi * 2^26 + lo
Wide(a, b) ==
    LET a1 == a \div 8192
        a0 == a % 8192
        b1 == b \div 8192
        b0 == b % 8192
        mid == a1 * b0 + a0 * b1
        low == (mid % 8192) * 8192 + a0 * b0
    IN [hi |-> a1 * b1 + (mid \div 8192) + (low \div 67108864), lo |-> low % 67108864]

\* a nonzero number with its mantissa brought to [2^23, 2^24) (the exponent of a subnormal goes below -149)
RECURSIVE Normal(_)
Normal(a) == IF a.m >= 8388608 THEN a ELSE Normal([a EXCEPT !.m = 2 * a.m, !.e = a.e - 1])

\* a * b
F32Mul(a, b) ==
    IF a.k = "nan" \/ b.k = "nan" THEN F32Nan
    ELSE IF a.k = "inf" \/ b.k = "inf"
    THEN IF (a.k = "num" /\ a.m = 0) \/ (b.k = "num" /\ b.m = 0)
         THEN F32Nan
         ELSE F32Inf(a.neg # b.neg)
    ELSE IF a.m = 0 \/ b.m = 0 THEN F32Zero
    ELSE LET x == Normal(a)
             y == Normal(b)
             p == Wide(x.m, y.m)
         IN F32Round(a.neg # b.neg,
                     Jam(p.hi * 256 + (p.lo \div 262144), p.lo % 262144 # 0),
                     x.e + y.e + 18)

\* a / (c as f32) for a count 0 <= c <= 31
F32DivInt(a, c) ==
    IF c = 0
    THEN IF a.k = "nan" \/ (a.k = "num" /\ a.m = 0) THEN F32Nan ELSE F32Inf(a.neg)
    ELSE IF a.k # "num" \/ a.m = 0 \/ c = 1 THEN a
    ELSE LET x == Normal(a)
             n == x.m * 64
         IN F32Round(a.neg, Jam(2 * (n \div c), n % c # 0), x.e - 7)

\* the largest r in lo..hi with r * r <= X * 2^26  (lo * lo <= X * 2^26 < (hi + 1)^2)
RECURSIVE RootBetween(_, _, _)
RootBetween(X, lo, hi) ==
    IF lo = hi THEN lo
    ELSE LET mid == (lo + hi + 1) \div 2
             sq == Wide(mid, mid)
         IN IF sq.hi < X \/ (sq.hi = X /\ sq.lo = 0)
            THEN RootBetween(X, mid, hi)
            ELSE RootBetween(X, lo, mid - 1)

\* a.sqrt()
F32Sqrt(a) ==
    IF a.k = "nan" THEN F32Nan
    ELSE IF a.k = "num" /\ a.m = 0 THEN F32Zero
    ELSE IF a.neg THEN F32Nan
    ELSE IF a.k = "inf" THEN a
    ELSE LET x == Normal(a)
             odd == x.e % 2 = 1
             X == IF odd THEN 2 * x.m ELSE x.m
             ex == IF odd THEN x.e - 1 ELSE x.e
             r == RootBetween(X, 0, 67108863)
             sq == Wide(r, r)
         IN F32Round(FALSE, Jam(2 * r, ~(sq.hi = X /\ sq.lo = 0)), (ex \div 2) - 14)

\* a > b
F32Gt(a, b) ==
    IF a.k = "nan" \/ b.k = "nan" THEN FALSE
    ELSE IF a.k = "num" /\ b.k = "num" /\ a.m = 0 /\ b.m = 0 THEN FALSE
    ELSE IF a.neg # b.neg THEN b.neg
    ELSE LET big == IF a.k = "inf" THEN b.k # "inf"
                    ELSE IF b.k = "inf" THEN FALSE
                    ELSE a.e > b.e \/ (a.e = b.e /\ a.m > b.m)
             same == a = b
         IN IF a.neg THEN ~big /\ ~same ELSE big

\* a == 0.0
F32IsZero(a) == a.k = "num" /\ a.m = 0

\* ------------------------------------------------------------- NodeStats
DefaultStats == [sum |-> 0, sum_sq |-> 0, count |-> 0]

update(st, rating) ==
    [sum |-> st.sum + rating, sum_sq |-> st.sum_sq + rating * rating, count |-> st.count + 1]

mean(st) == FDiv(st.sum, st.count)

std_dev(st) == Root(Variance(st.sum, st.sum_sq, st.count))

\* ------------------------------------------------------ the ratings table
\* INSERT ... VALUES ($1, $2, $3, EXTRACT(EPOCH FROM NOW())::bigint, 0)
NewRow(ni, ts) ==
    [source |-> ni.source, target |-> ni.target, rating |-> ni.rating,
     timestamp |-> ts, anomaly |-> 0]

\* mutant: an upsert, the row of the same source and target is replaced
InsertRowUpsert(table, ni, ts) ==
    IF \E i \in 1..Len(table) : table[i].source = ni.source /\ table[i].target = ni.target
    THEN [i \in 1..Len(table) |->
            IF table[i].source = ni.source /\ table[i].target = ni.target
            THEN NewRow(ni, ts) ELSE table[i]]
    ELSE Append(table, NewRow(ni, ts))

InsertRow(table, ni, ts) == Append(table, NewRow(ni, ts))

\* mutant: WHERE source = $1 OR target = $1
RECURSIVE QueryByEndpoint(_, _)
QueryByEndpoint(table, src) ==
    IF table = <<>> THEN <<>>
    ELSE IF Head(table).source = src \/ Head(table).target = src
         THEN <<Head(table).rating>> \o QueryByEndpoint(Tail(table), src)
         ELSE QueryByEndpoint(Tail(table), src)

\* SELECT rating FROM ratings WHERE source = $1
RECURSIVE QueryBySource(_, _)
QueryBySource(table, src) ==
    IF table = <<>> THEN <<>>
    ELSE IF Head(table).source = src
         THEN <<Head(table).rating>> \o QueryBySource(Tail(table), src)
         ELSE QueryBySource(Tail(table), src)

\* SELECT source, target, rating, timestamp, anomaly FROM ratings
QueryAll(table) == table

\* --------------------------------------------------- process_interaction
\* the fold over the history rows
RECURSIVE FoldRatings(_, _)
FoldRatings(rows, acc) ==
    IF rows = <<>> THEN acc ELSE FoldRatings(Tail(rows), update(acc, Head(rows)))

IngestMean(acc) == FDiv(acc.sum, acc.count)

IngestStdDev(acc) ==
    IF acc.count > 1 THEN Root(Variance(acc.sum, acc.sum_sq, acc.count)) ELSE ZeroRoot

\* mutant: the fixed threshold compared with >=
IngestVerdictNonStrict(rating, m, s) ==
    IF IsZero(s) THEN Abs(rating) >= FIXED_THRESHOLD ELSE DiffExceeds(rating, m, s)

IngestVerdict(rating, m, s) ==
    IF IsZero(s) THEN Abs(rating) > FIXED_THRESHOLD ELSE DiffExceeds(rating, m, s)

Classify(rating, rows) ==
    LET acc == FoldRatings(rows, DefaultStats)
    IN IngestVerdict(rating, IngestMean(acc), IngestStdDev(acc))

\* what the blocking task hands back to the handler
NoResult == [tag |-> "None", is_anomaly |-> FALSE, err |-> ""]
OkVerdict(b) == [tag |-> "Ok", is_anomaly |-> b, err |-> ""]
ErrResult(e) == [tag |-> "Err", is_anomaly |-> FALSE, err |-> e]
JoinError == [tag |-> "JoinErr", is_anomaly |-> FALSE, err |-> "task panicked"]

NoInteraction == [source |-> 0, target |-> 0, rating |-> 0]

\* mutant: result.unwrap_or(false): a failed task is answered as a verdict
InteractionResponseSwallow(r) ==
    IF r.tag = "Ok" /\ r.is_anomaly
    THEN [status |-> "Anomaly", is_anomaly |-> TRUE]
    ELSE [status |-> "Normal", is_anomaly |-> FALSE]

\* mutant: a failed request is reported as an anomaly
InteractionResponseFailClosed(r) ==
    IF r.tag = "Ok"
    THEN [status |-> IF r.is_anomaly THEN "Anomaly" ELSE "Normal", is_anomaly |-> r.is_anomaly]
    ELSE [status |-> "Error processing interaction: " \o r.err, is_anomaly |-> TRUE]

\* the match of add_interaction
InteractionResponseOf(r) ==
    IF r.tag = "Ok"
    THEN [status |-> IF r.is_anomaly THEN "Anomaly" ELSE "Normal", is_anomaly |-> r.is_anomaly]
    ELSE IF r.tag = "Err"
    THEN [status |-> "Error processing interaction: " \o r.err, is_anomaly |-> FALSE]
    ELSE [status |-> "Task join error: " \o r.err, is_anomaly |-> FALSE]

\* ------------------------------------------------------- add_interaction
\* A request is split where it touches the table: the INSERT and the SELECT.
\* What the task does before, between and after them is local to the request
\* and belongs to the step of the storage call it leads to or follows.

\* no response leaves in this step
NoOut == [op |-> "none"]

\* the record kept of a request.  At its INSERT: the rows of the requests then
\* between their INSERT and their SELECT (with).  At its answer: the status
\* ("pending" before) and, for a verdict, the number of ratings its SELECT
\* returned (seen; 0 without a verdict)
Pending(inflight) == [seen |-> 0, status |-> "pending", with |-> inflight]
Answer(kept, result, rows) ==
    [kept EXCEPT !.seen = IF result.tag = "Ok" THEN Len(rows) ELSE 0,
                 !.status = InteractionResponseOf(result).status]

\* the task ends with `result`; the match of add_interaction builds the response,
\* the response is sent and the worker takes the next request.
\* row: position of the row the request inserted (0: none); rows: the history it read
IngestEnd(w, row, rows, result) ==
    /\ out' = [op |-> "add_interaction", row |-> row, rows |-> rows, result |-> result,
               response |-> InteractionResponseOf(result)]
    /\ ipc' = [ipc EXCEPT ![w] = "idle"]
    /\ req' = [req EXCEPT ![w] = NoInteraction]
    /\ own' = [own EXCEPT ![w] = 0]
    /\ told' = IF audit /\ row # 0
               THEN [told EXCEPT ![row] = Answer(@, result, rows)]
               ELSE told
    /\ audit' = audit

\* POST /add_interaction: the task is spawned, env::var and Client::connect succeed,
\* client.execute(insert_query, ..)? succeeds: the row is in the table
AddInteraction(w) ==
    /\ ipc[w] = "idle"
    /\ Len(log) < MaxLog
    /\ \E s \in Entities, t \in Entities, r \in RatingValues, ts \in Epochs :
          LET new_int == [source |-> s, target |-> t, rating |-> r]
          IN /\ req' = [req EXCEPT ![w] = new_int]
             /\ log' = InsertRow(log, new_int, ts)
    /\ own' = [own EXCEPT ![w] = Len(log) + 1]
    /\ ipc' = [ipc EXCEPT ![w] = "query"]
    /\ out' = NoOut
    /\ told' = IF audit
               THEN Append(told, Pending({own[v] : v \in {x \in Workers : ipc[x] = "query"}}))
               ELSE told
    /\ audit' = audit
    /\ UNCHANGED cvars

\* POST /add_interaction: env::var("DATABASE_URL")? fails
AddInteractionConfigFail(w) ==
    /\ ipc[w] = "idle"
    /\ IngestEnd(w, 0, <<>>, ErrResult("environment variable not found"))
    /\ UNCHANGED <<log, cvars>>

\* POST /add_interaction: Client::connect(..)? fails
AddInteractionConnectFail(w) ==
    /\ ipc[w] = "idle"
    /\ IngestEnd(w, 0, <<>>, ErrResult("error connecting to server"))
    /\ UNCHANGED <<log, cvars>>

\* POST /add_interaction: client.execute(insert_query, ..)? fails: no row
AddInteractionInsertFail(w) ==
    /\ ipc[w] = "idle"
    /\ IngestEnd(w, 0, <<>>, ErrResult("db error: insert"))
    /\ UNCHANGED <<log, cvars>>

\* mutant: the verdict is written back into the row the request inserted
IngestQueryWriteBack(w) ==
    /\ ipc[w] = "query"
    /\ LET rows == QueryBySource(log, req[w].source)
           is_anomaly == Classify(req[w].rating, rows)
       IN /\ IngestEnd(w, own[w], rows, OkVerdict(is_anomaly))
          /\ log' = [log EXCEPT ![own[w]].anomaly = IF is_anomaly THEN 1 ELSE 0]
    /\ UNCHANGED cvars

\* mutant: the history is what was stored before the row the request inserted
IngestQueryPrior(w) ==
    /\ ipc[w] = "query"
    /\ LET rows == QueryBySource(SubSeq(log, 1, own[w] - 1), req[w].source)
       IN IngestEnd(w, own[w], rows, OkVerdict(Classify(req[w].rating, rows)))
    /\ UNCHANGED <<log, cvars>>

\* mutant: the history stops at the row the request inserted
IngestQueryUpToOwn(w) ==
    /\ ipc[w] = "query"
    /\ LET rows == QueryBySource(SubSeq(log, 1, own[w]), req[w].source)
       IN IngestEnd(w, own[w], rows, OkVerdict(Classify(req[w].rating, rows)))
    /\ UNCHANGED <<log, cvars>>

\* client.query("SELECT rating FROM ratings WHERE source = $1")? succeeds;
\* the fold, the statistics and the verdict: Ok(is_anomaly)
IngestQuery(w) ==
    /\ ipc[w] = "query"
    /\ LET rows == QueryBySource(log, req[w].source)
       IN IngestEnd(w, own[w], rows, OkVerdict(Classify(req[w].rating, rows)))
    /\ UNCHANGED <<log, cvars>>

\* mutant: the row is taken back when the history query fails
IngestQueryFailRollback(w) ==
    /\ ipc[w] = "query"
    /\ own[w] = Len(log)
    /\ IngestEnd(w, own[w], <<>>, ErrResult("db error: query"))
    /\ log' = SubSeq(log, 1, Len(log) - 1)
    /\ UNCHANGED cvars

\* client.query(..)? fails: the inserted row stays
IngestQueryFail(w) ==
    /\ ipc[w] = "query"
    /\ IngestEnd(w, own[w], <<>>, ErrResult("db error: query"))
    /\ UNCHANGED <<log, cvars>>

\* the query succeeds and the task panics while it decodes a row (row.get): the join fails
IngestPanic(w) ==
    /\ ipc[w] = "query"
    /\ IngestEnd(w, own[w], QueryBySource(log, req[w].source), JoinError)
    /\ UNCHANGED <<log, cvars>>

\* ---------------------------------------------------------------- get_stats
EmptyMap == [k \in {} |-> 0]

EdgeOf(record) ==
    [target |-> record.target, rating |-> record.rating,
     timestamp |-> record.timestamp, anomaly |-> record.anomaly]

\* mutant: adj_map.insert(source, vec![edge])
PushEdgeOverwrite(adj, source, edge) ==
    IF source \in DOMAIN adj
    THEN [adj EXCEPT ![source] = <<edge>>]
    ELSE adj @@ (source :> <<edge>>)

\* adj_map.entry(source).or_insert_with(Vec::new).push(edge)
PushEdge(adj, source, edge) ==
    IF source \in DOMAIN adj
    THEN [adj EXCEPT ![source] = Append(@, edge)]
    ELSE adj @@ (source :> <<edge>>)

\* node_stats.entry(id).or_default().update(rating)
UpdateEntry(ns, id, rating) ==
    IF id \in DOMAIN ns
    THEN [ns EXCEPT ![id] = update(@, rating)]
    ELSE ns @@ (id :> update(DefaultStats, rating))

\* mutant: a row from an entity to itself updates the entity's statistics once
RECURSIVE FirstPassSelfOnce(_, _, _)
FirstPassSelfOnce(rows, adj, ns) ==
    IF rows = <<>> THEN [adj_map |-> adj, node_stats |-> ns]
    ELSE LET record == Head(rows)
             ns1 == UpdateEntry(ns, record.source, record.rating)
         IN FirstPassSelfOnce(Tail(rows),
                              PushEdge(adj, record.source, EdgeOf(record)),
                              IF record.target = record.source
                              THEN ns1
                              ELSE UpdateEntry(ns1, record.target, record.rating))

\* first pass: one row at a time, the source's edge list, then the source's and the target's statistics
RECURSIVE FirstPass(_, _, _)
FirstPass(rows, adj, ns) ==
    IF rows = <<>> THEN [adj_map |-> adj, node_stats |-> ns]
    ELSE LET record == Head(rows)
         IN FirstPass(Tail(rows),
                      PushEdge(adj, record.source, EdgeOf(record)),
                      UpdateEntry(UpdateEntry(ns, record.source, record.rating),
                                  record.target, record.rating))

\* mutant: the fixed threshold compared with >=
BatchVerdictNonStrict(rating, m, s) ==
    IF IsZero(s) THEN Abs(rating) >= FIXED_THRESHOLD ELSE DiffExceeds(rating, m, s)

BatchVerdict(rating, m, s) ==
    IF IsZero(s) THEN Abs(rating) > FIXED_THRESHOLD ELSE DiffExceeds(rating, m, s)

NoCounts == [total |-> 0, normal |-> 0, anomalous |-> 0]

\* the inner loop over one source's edges
RECURSIVE CountEdges(_, _, _, _)
CountEdges(edges, m, s, acc) ==
    IF edges = <<>> THEN acc
    ELSE LET is_anomaly == BatchVerdict(Head(edges).rating, m, s)
         IN CountEdges(Tail(edges), m, s,
                       [total |-> acc.total + 1,
                        normal |-> IF is_anomaly THEN acc.normal ELSE acc.normal + 1,
                        anomalous |-> IF is_anomaly THEN acc.anomalous + 1 ELSE acc.anomalous])

\* second pass: the sources of adj_map in the iteration order of the hash map
RECURSIVE SecondPass(_, _, _, _)
SecondPass(order, adj, ns, acc) ==
    IF order = <<>> THEN acc
    ELSE LET source == Head(order)
         IN IF source \notin DOMAIN ns
            THEN SecondPass(Tail(order), adj, ns, acc)
            ELSE SecondPass(Tail(order), adj, ns,
                            CountEdges(adj[source], mean(ns[source]), std_dev(ns[source]), acc))

\* mutant: the ratio without the total > 0 guard
RatioUnguarded(anomalous, total) == FDiv(anomalous, total)

\* anomaly_ratio
Ratio(anomalous, total) == IF total > 0 THEN FDiv(anomalous, total) ELSE Rat(0, 1)

StatsOf(rows, order) ==
    LET g == FirstPass(rows, EmptyMap, EmptyMap)
        c == SecondPass(order, g.adj_map, g.node_stats, NoCounts)
    IN [total_interactions |-> c.total,
        normal_interactions |-> c.normal,
        anomalous_interactions |-> c.anomalous,
        anomaly_ratio |-> Ratio(c.anomalous, c.total)]

ZeroStats ==
    [total_interactions |-> 0, normal_interactions |-> 0,
     anomalous_interactions |-> 0, anomaly_ratio |-> Rat(0, 1)]

NoStatsResult == [tag |-> "None", err |-> "", stats |-> ZeroStats]
OkStats(st) == [tag |-> "Ok", err |-> "", stats |-> st]
StatsErr(e) == [tag |-> "Err", err |-> e, stats |-> ZeroStats]
StatsJoinError == [tag |-> "JoinErr", err |-> "task panicked", stats |-> ZeroStats]

\* mutant: the fallback computes its ratio from its zero counts
StatsResponseNaN(r) ==
    IF r.tag = "Ok" THEN r.stats
    ELSE [total_interactions |-> 0, normal_interactions |-> 0,
          anomalous_interactions |-> 0, anomaly_ratio |-> FDiv(0, 0)]

\* the match of get_stats
StatsResponseOf(r) == IF r.tag = "Ok" THEN r.stats ELSE ZeroStats

\* the orders in which a hash map can hand out the keys S
Orders(S) ==
    {o \in [1..Cardinality(S) -> S] : \A i, j \in 1..Cardinality(S) : o[i] = o[j] => i = j}

\* One run of get_stats reads the table once; the whole handler is one step.
\* the task ends with `result`; the match of get_stats builds the response
\* graph: adj_map and node_stats as the first pass built them (empty when the task failed)
StatsEnd(rows, result) ==
    /\ out' = [op |-> "get_stats", rows |-> rows, result |-> result,
               graph |-> IF result.tag = "Ok"
                         THEN FirstPass(rows, EmptyMap, EmptyMap)
                         ELSE [adj_map |-> EmptyMap, node_stats |-> EmptyMap],
               response |-> StatsResponseOf(result)]
    /\ UNCHANGED <<log, ivars, cvars, hvars>>

\* GET /stats: the query succeeds, both passes and the ratio: Ok(StatsResponse)
GetStats ==
    LET rows == QueryAll(log)
    IN \E order \in Orders(DOMAIN FirstPass(rows, EmptyMap, EmptyMap).adj_map) :
          StatsEnd(rows, OkStats(StatsOf(rows, order)))

\* GET /stats: env::var("DATABASE_URL")? fails
GetStatsConfigFail == StatsEnd(<<>>, StatsErr("environment variable not found"))

\* GET /stats: Client::connect(..)? fails
GetStatsConnectFail == StatsEnd(<<>>, StatsErr("error connecting to server"))

\* GET /stats: client.query(..)? fails
GetStatsQueryFail == StatsEnd(<<>>, StatsErr("db error: query"))

\* GET /stats: the query succeeds and the task panics while it decodes a row (row.get)
GetStatsPanic == StatsEnd(QueryAll(log), StatsJoinError)

\* ------------------------------------------------------ get_all_interactions
\* mutant: the columns of source and target are read into each other's field
InteractionRecordSwapped(row) ==
    [source |-> row.target, target |-> row.source, rating |-> row.rating,
     timestamp |-> row.timestamp, anomaly |-> row.anomaly]

\* InteractionRecord { source: row.get("source"), .. }
InteractionRecordOf(row) ==
    [source |-> row.source, target |-> row.target, rating |-> row.rating,
     timestamp |-> row.timestamp, anomaly |-> row.anomaly]

\* the loop that pushes one InteractionRecord per row
RECURSIVE Interactions(_)
Interactions(rows) ==
    IF rows = <<>> THEN <<>>
    ELSE <<InteractionRecordOf(Head(rows))>> \o Interactions(Tail(rows))

NoListResult == [tag |-> "None", err |-> "", interactions |-> <<>>]
OkList(recs) == [tag |-> "Ok", err |-> "", interactions |-> recs]
ListErr(e) == [tag |-> "Err", err |-> e, interactions |-> <<>>]
ListJoinError == [tag |-> "JoinErr", err |-> "task panicked", interactions |-> <<>>]

\* the match of get_all_interactions
ListResponseOf(r) == IF r.tag = "Ok" THEN r.interactions ELSE <<>>

\* One run of get_all_interactions reads the table once; the whole handler is one step.
ListEnd(rows, result) ==
    /\ out' = [op |-> "get_all_interactions", rows |-> rows, result |-> result,
               response |-> ListResponseOf(result)]
    /\ UNCHANGED <<log, ivars, cvars, hvars>>

\* GET /all_interactions: the query succeeds: Ok(interactions)
GetAllInteractions ==
    LET rows == QueryAll(log) IN ListEnd(rows, OkList(Interactions(rows)))

\* GET /all_interactions: env::var("DATABASE_URL")? fails
GetAllConfigFail == ListEnd(<<>>, ListErr("environment variable not found"))

\* GET /all_interactions: Client::connect(..)? fails
GetAllConnectFail == ListEnd(<<>>, ListErr("error connecting to server"))

\* GET /all_interactions: client.query(..)? fails
GetAllQueryFail == ListEnd(<<>>, ListErr("db error: query"))

\* GET /all_interactions: the query succeeds and the task panics while it decodes a row
GetAllPanic == ListEnd(QueryAll(log), ListJoinError)

\* ------------------------------------------------------------ the service
NoFloat == [pc |-> "off"]

NoBaseline == [mean |-> NaN, std |-> ZeroRoot]

InitService ==
    /\ log = <<>>
    /\ ipc = [w \in Workers |-> "idle"]
    /\ req = [w \in Workers |-> NoInteraction]
    /\ own = [w \in Workers |-> 0]
    /\ out = NoOut
    /\ told = <<>>

Init ==
    /\ InitService
    /\ audit = FALSE
    /\ cpc = "off"
    /\ cHist = <<>>
    /\ cRating = 0
    /\ cBase = NoBaseline
    /\ cIngest = <<>>
    /\ cBatch = <<>>
    /\ fl = NoFloat

\* the same service, keeping what each add_interaction request was answered
InitAudit ==
    /\ InitService
    /\ audit = TRUE
    /\ cpc = "off"
    /\ cHist = <<>>
    /\ cRating = 0
    /\ cBase = NoBaseline
    /\ cIngest = <<>>
    /\ cBatch = <<>>
    /\ fl = NoFloat

\* ------------------------------------------------- the classifier harness
\* The decision of both paths as a function of its inputs: a rating, and a
\* baseline (mean, std_dev) that either path derived from a rating history.
Histories == UNION {[1..n -> HarnessRatings] : n \in 0..MaxHist}

InitClassify ==
    /\ InitService
    /\ audit = FALSE
    /\ cpc = "start"
    /\ cHist \in Histories
    /\ cRating \in HarnessRatings
    /\ cBase = NoBaseline
    /\ cIngest = <<>>
    /\ cBatch = <<>>
    /\ fl = NoFloat

\* the baseline as process_interaction derives it from the rows of its query
BaselineIngest ==
    /\ cpc = "start"
    /\ LET acc == FoldRatings(cHist, DefaultStats)
       IN cBase' = [mean |-> IngestMean(acc), std |-> IngestStdDev(acc)]
    /\ cpc' = "base"
    /\ UNCHANGED <<log, ivars, out, cHist, cRating, cIngest, cBatch, fl, hvars>>

\* the baseline as get_stats derives it from a node_stats entry (never an empty one)
BaselineBatch ==
    /\ cpc = "start"
    /\ cHist # <<>>
    /\ LET st == FoldRatings(cHist, DefaultStats)
       IN cBase' = [mean |-> mean(st), std |-> std_dev(st)]
    /\ cpc' = "base"
    /\ UNCHANGED <<log, ivars, out, cHist, cRating, cIngest, cBatch, fl, hvars>>

\* the decision of process_interaction
VerdictIngest ==
    /\ cpc = "base"
    /\ cIngest = <<>>
    /\ cIngest' = <<IngestVerdict(cRating, cBase.mean, cBase.std)>>
    /\ UNCHANGED <<log, ivars, out, cpc, cHist, cRating, cBase, cBatch, fl, hvars>>

\* the decision of get_stats
VerdictBatch ==
    /\ cpc = "base"
    /\ cBatch = <<>>
    /\ cBatch' = <<BatchVerdict(cRating, cBase.mean, cBase.std)>>
    /\ UNCHANGED <<log, ivars, out, cpc, cHist, cRating, cBase, cIngest, fl, hvars>>

NextClassify ==
    \/ BaselineIngest
    \/ BaselineBatch
    \/ VerdictIngest
    \/ VerdictBatch

\* ------------------------------------ the two paths at binary32 precision
\* The same expressions as above, evaluated in the f32 arithmetic of the
\* program instead of exactly: rounding, overflow and NaN included.

\* ratings as a request body carries them: 2.0 and 7.0 (sums and squares of a
\* few of them are exact), 4.7 and 9.9 (the nearest f32), 2^64 (its square
\* exceeds f32::MAX)
F32Ratings ==
    {F32OfInt(2), F32OfInt(7), F32Num(FALSE, 9856614, -21), F32Num(FALSE, 10380902, -20),
     F32Num(FALSE, 8388608, 41)}
ExactRatings == {F32OfInt(2), F32OfInt(7)}

F32DefaultStats == [sum |-> F32Zero, sum_sq |-> F32Zero, count |-> 0]

\* NodeStats::update
F32Update(st, rating) ==
    [sum |-> F32Add(st.sum, rating),
     sum_sq |-> F32Add(st.sum_sq, F32Mul(rating, rating)),
     count |-> st.count + 1]

\* NodeStats::mean
F32Mean(st) == F32DivInt(st.sum, st.count)

\* (self.sum_sq / self.count as f32) - mean * mean
F32Variance(st) ==
    F32Sub(F32DivInt(st.sum_sq, st.count), F32Mul(F32Mean(st), F32Mean(st)))

\* NodeStats::std_dev: variance.sqrt(), no clamp
F32StdDev(st) == F32Sqrt(F32Variance(st))

\* process_interaction: the fold over the history rows
RECURSIVE F32FoldRatings(_, _)
F32FoldRatings(rows, acc) ==
    IF rows = <<>> THEN acc ELSE F32FoldRatings(Tail(rows), F32Update(acc, Head(rows)))

\* process_interaction: if count > 1 { variance.sqrt() } else { 0.0 }
F32IngestStdDev(acc) == IF acc.count > 1 THEN F32Sqrt(F32Variance(acc)) ELSE F32Zero

\* the decision, the same expression in both paths
F32Verdict(rating, m, s) ==
    IF F32IsZero(s)
    THEN F32Gt(F32Abs(rating), F32OfInt(FIXED_THRESHOLD))
    ELSE F32Gt(F32Abs(F32Sub(rating, m)), F32Mul(F32OfInt(THRESHOLD_MULTIPLE), s))

\* node_stats.entry(id).or_default().update(rating)
F32UpdateEntry(ns, id, rating) ==
    IF id \in DOMAIN ns
    THEN [ns EXCEPT ![id] = F32Update(@, rating)]
    ELSE ns @@ (id :> F32Update(F32DefaultStats, rating))

\* get_stats: first pass
RECURSIVE F32FirstPass(_, _, _)
F32FirstPass(rows, adj, ns) ==
    IF rows = <<>> THEN [adj_map |-> adj, node_stats |-> ns]
    ELSE LET record == Head(rows)
         IN F32FirstPass(Tail(rows),
                         PushEdge(adj, record.source, EdgeOf(record)),
                         F32UpdateEntry(F32UpdateEntry(ns, record.source, record.rating),
                                        record.target, record.rating))

\* get_stats: the inner loop over one source's edges
RECURSIVE F32CountEdges(_, _, _, _)
F32CountEdges(edges, m, s, acc) ==
    IF edges = <<>> THEN acc
    ELSE LET is_anomaly == F32Verdict(Head(edges).rating, m, s)
         IN F32CountEdges(Tail(edges), m, s,
                          [total |-> acc.total + 1,
                           normal |-> IF is_anomaly THEN acc.normal ELSE acc.normal + 1,
                           anomalous |-> IF is_anomaly THEN acc.anomalous + 1 ELSE acc.anomalous])

\* mutant: the counters are declared inside the loop over the sources
RECURSIVE F32SecondPassReset(_, _, _, _)
F32SecondPassReset(order, adj, ns, acc) ==
    IF order = <<>> THEN acc
    ELSE LET source == Head(order)
         IN IF source \notin DOMAIN ns
            THEN F32SecondPassReset(Tail(order), adj, ns, acc)
            ELSE F32SecondPassReset(Tail(order), adj, ns,
                     F32CountEdges(adj[source], F32Mean(ns[source]), F32StdDev(ns[source]),
                                   NoCounts))

\* get_stats: second pass, the sources in the iteration order of the hash map
RECURSIVE F32SecondPass(_, _, _, _)
F32SecondPass(order, adj, ns, acc) ==
    IF order = <<>> THEN acc
    ELSE LET source == Head(order)
         IN IF source \notin DOMAIN ns
            THEN F32SecondPass(Tail(order), adj, ns, acc)
            ELSE F32SecondPass(Tail(order), adj, ns,
                     F32CountEdges(adj[source], F32Mean(ns[source]), F32StdDev(ns[source]),
                                   acc))

\* get_stats on the rows as its SELECT returned them
F32StatsOf(rows, order) ==
    LET g == F32FirstPass(rows, EmptyMap, EmptyMap)
    IN [node_stats |-> g.node_stats,
        counts |-> F32SecondPass(order, g.adj_map, g.node_stats, NoCounts)]

\* the sources of a table: the keys of adj_map
SourcesOf(table) == {table[i].source : i \in 1..Len(table)}

\* ---------------------------------------------------- the binary32 harness
\* One table of up to MaxRows rows with f32 ratings, and one request on it:
\* a get_stats run, or the history query and the decision of the
\* add_interaction request that inserted the last row.  The SELECT of
\* get_stats has no ORDER BY and its hash map no fixed iteration order: the
\* run folds the rows in the order of the table or with two neighbouring rows
\* exchanged, and walks the sources in any order.  The table ranges over all
\* sequences of rows and any order is reached from any other by exchanges of
\* neighbours, so whatever depends on the order of the rows differs between a
\* table and one of its exchanges.

\* the orders of n rows that differ from 1..n by at most one exchange of neighbours
Exchanges(n) ==
    {[i \in 1..n |-> IF k = 0 THEN i ELSE IF i = k THEN k + 1 ELSE IF i = k + 1 THEN k ELSE i] :
        k \in 0..(n - 1)}

F32Rows ==
    {NewRow([source |-> s, target |-> t, rating |-> r], 0) :
        s \in Entities, t \in Entities, r \in F32Ratings}
F32Tables == UNION {[1..n -> F32Rows] : n \in 1..MaxRows}

InitFloat ==
    /\ InitService
    /\ audit = FALSE
    /\ cpc = "off"
    /\ cHist = <<>>
    /\ cRating = 0
    /\ cBase = NoBaseline
    /\ cIngest = <<>>
    /\ cBatch = <<>>
    /\ fl \in {[pc |-> "start", table |-> t] : t \in F32Tables}

F32GetStats ==
    /\ fl.pc = "start"
    /\ \E p \in Exchanges(Len(fl.table)), order \in Orders(SourcesOf(fl.table)) :
          LET rows == [i \in 1..Len(fl.table) |-> fl.table[p[i]]]
              st == F32StatsOf(rows, order)
          IN fl' = [pc |-> "stats", table |-> fl.table, rows |-> rows, order |-> order,
                    node_stats |-> st.node_stats, counts |-> st.counts]
    /\ UNCHANGED <<log, ivars, out, cpc, cHist, cRating, cBase, cIngest, cBatch, hvars>>

F32AddInteraction ==
    /\ fl.pc = "start"
    /\ LET new_int == fl.table[Len(fl.table)]
           rows == QueryBySource(fl.table, new_int.source)
           acc == F32FoldRatings(rows, F32DefaultStats)
           std == F32IngestStdDev(acc)
       IN fl' = [pc |-> "verdict", table |-> fl.table, rows |-> rows, acc |-> acc,
                 std_dev |-> std,
                 is_anomaly |-> F32Verdict(new_int.rating, F32Mean(acc), std)]
    /\ UNCHANGED <<log, ivars, out, cpc, cHist, cRating, cBase, cIngest, cBatch, hvars>>

NextFloat ==
    \/ F32GetStats
    \/ F32AddInteraction

SpecFloat == InitFloat /\ [][NextFloat]_vars

Next ==
    \/ \E w \in Workers : AddInteraction(w)
    \/ \E w \in Workers : AddInteractionConfigFail(w)
    \/ \E w \in Workers : AddInteractionConnectFail(w)
    \/ \E w \in Workers : AddInteractionInsertFail(w)
    \/ \E w \in Workers : IngestQuery(w)
    \/ \E w \in Workers : IngestQueryFail(w)
    \/ \E w \in Workers : IngestPanic(w)
    \/ GetStats
    \/ GetStatsConfigFail
    \/ GetStatsConnectFail
    \/ GetStatsQueryFail
    \/ GetStatsPanic
    \/ GetAllInteractions
    \/ GetAllConfigFail
    \/ GetAllConnectFail
    \/ GetAllQueryFail
    \/ GetAllPanic

Spec == Init /\ [][Next]_vars

\* the service with the answers of add_interaction kept per row
SpecAudit == InitAudit /\ [][Next]_vars

SpecClassify == InitClassify /\ [][NextClassify]_vars

\* ================================================================ properties
\* row i of the table is the sample of interaction ni, stored with marker 0
SampleAt(table, i, ni) ==
    /\ i \in 1..Len(table)
    /\ table[i].source = ni.source
    /\ table[i].target = ni.target
    /\ table[i].rating = ni.rating
    /\ table[i].anomaly = 0

\* the ratings of the rows of the table whose source is src
SourceRatings(table, src) ==
    LET sel == SelectSeq(table, LAMBDA row : row.source = src)
    IN [i \in 1..Len(sel) |-> sel[i].rating]

IngestOk == out.op = "add_interaction" /\ out.result.tag = "Ok"
IngestFailed == out.op = "add_interaction" /\ out.result.tag # "Ok"
StatsOk == out.op = "get_stats" /\ out.result.tag = "Ok"
StatsFailed == out.op = "get_stats" /\ out.result.tag # "Ok"
Busy == \E w \in Workers : ipc[w] = "query"

\* C1: a successful get_stats run returns as total the number of rows of the one
\* snapshot it read (the table as it is at its query, requests of add_interaction
\* in flight or not), and normal + anomalous = total.
C1_TotalIsSnapshotSize ==
    StatsOk =>
        /\ out.rows = log
        /\ out.response.total_interactions = Len(out.rows)
        /\ out.response.normal_interactions + out.response.anomalous_interactions
             = out.response.total_interactions

C1_Witness ==
    /\ StatsOk
    /\ Busy
    /\ out.response.total_interactions = 2
    /\ out.response.normal_interactions = 1
    /\ out.response.anomalous_interactions = 1

\* C2: whatever ends the task of add_interaction other than Ok (configuration,
\* connect, insert, history query, a panic of the task), the response carries
\* is_anomaly = false and a status that is not empty.
C2_FailureIsSoft ==
    IngestFailed => /\ out.response.is_anomaly = FALSE
                    /\ out.response.status # ""

C2_Witness ==
    /\ IngestFailed
    /\ out.result.tag = "JoinErr"
    /\ out.response.is_anomaly = FALSE
    /\ Len(out.response.status) > 0

\* C3: the INSERT is the first storage call of a request and is not undone: a
\* request that has inserted holds its sample in the table, every row of the
\* table is still there after any step, and the step that ends the request (the
\* history query failing included) leaves the sample where it was inserted; a
\* request that ends without a row has read no history.
C3_AppendStays ==
    [][ /\ \A w \in Workers : ipc[w] = "query" =>
              /\ SampleAt(log, own[w], req[w])
              /\ SampleAt(log', own[w], req[w])
              /\ ipc'[w] = "idle" => out'.row = own[w]
        /\ \A i \in 1..Len(log) : i <= Len(log') /\ log'[i] = log[i]
        /\ (out'.op = "add_interaction" /\ out'.row = 0) =>
              (out'.rows = <<>> /\ out'.result.tag = "Err") ]_vars

C3_Witness ==
    /\ out.op = "add_interaction"
    /\ out.result.tag = "Err"
    /\ out.row \in 1..Len(log)
    /\ out.response.is_anomaly = FALSE
    /\ out.response.status = "Error processing interaction: db error: query"

\* C4 (as claimed): the history a request classifies against is the ratings of
\* its source stored before its own sample, without its own rating.
C4_PriorHistoryOnly ==
    IngestOk =>
        out.rows = SourceRatings(SubSeq(log, 1, out.row - 1), log[out.row].source)

\* C5: the history a request classifies against is the ratings of exactly the
\* rows whose source is the request's source, and the verdict is the one those
\* ratings give: rows in which that entity is only the target take no part.
C5_SourceRowsOnly ==
    IngestOk =>
        LET sample == log[out.row]
            issued == SourceRatings(log, sample.source)
        IN /\ out.rows = issued
           /\ out.result.is_anomaly = Classify(sample.rating, issued)

C5_Witness ==
    /\ IngestOk
    /\ \E i \in 1..Len(log) :
          /\ log[i].target = log[out.row].source
          /\ log[i].source # log[out.row].source

\* C6: the table is append-only. A step adds at most one row, at the end, and
\* only as the INSERT of an add_interaction request, with the request's source,
\* target and rating; every row already there keeps its place and its fields;
\* get_stats and get_all_interactions leave the table as it is.
C6_AppendOnly ==
    [][ /\ \A i \in 1..Len(log) : i <= Len(log') /\ log'[i] = log[i]
        /\ Len(log') <= Len(log) + 1
        /\ log' # log =>
              \E w \in Workers :
                  /\ ipc[w] = "idle" /\ ipc'[w] = "query"
                  /\ own'[w] = Len(log')
                  /\ SampleAt(log', Len(log'), req'[w])
                  /\ log'[Len(log')].timestamp \in Epochs
        /\ out'.op \in {"get_stats", "get_all_interactions"} => log' = log ]_vars

C6_Witness ==
    /\ Len(log) = 2
    /\ log[1].timestamp # log[2].timestamp
    /\ out.op = "get_all_interactions"
    /\ out.result.tag = "Ok"

\* C7: every row of the table has marker 0 in every reachable state, the row of
\* a request that was answered is_anomaly = true included.
C7_MarkerStaysZero == \A i \in 1..Len(log) : log[i].anomaly = 0

C7_Witness ==
    /\ IngestOk
    /\ out.response.is_anomaly = TRUE
    /\ out.response.status = "Anomaly"
    /\ log[out.row].anomaly = 0

\* C8: a get_stats run that fails (configuration, connect, query, a panic of the
\* task) answers total = 0, normal = 0, anomalous = 0, ratio = 0.0.
C8_FailureIsZero ==
    StatsFailed =>
        /\ out.response.total_interactions = 0
        /\ out.response.normal_interactions = 0
        /\ out.response.anomalous_interactions = 0
        /\ ~out.response.anomaly_ratio.nan
        /\ out.response.anomaly_ratio.num = 0

C8_Witness ==
    /\ StatsFailed
    /\ out.result.tag = "JoinErr"
    /\ Len(log) = 2
    /\ out.response.total_interactions = 0

\* C9: a successful get_stats run over an empty table answers total = 0,
\* normal = 0, anomalous = 0 and ratio 0.0, not the NaN of 0 / 0.
C9_EmptyIsZero ==
    (StatsOk /\ out.rows = <<>>) =>
        /\ out.response.total_interactions = 0
        /\ out.response.normal_interactions = 0
        /\ out.response.anomalous_interactions = 0
        /\ ~out.response.anomaly_ratio.nan
        /\ out.response.anomaly_ratio.num = 0

C9_Witness == StatsOk /\ out.rows = <<>> /\ log = <<>>

\* the two-sigma rule over a baseline b = (mean, std): the squares are compared,
\* both sides of the comparison being non-negative
TwoSigma(rating, b) ==
    IF ~b.std.nan /\ b.std.num = 0
    THEN (rating > 2 \/ rating < -2)
    ELSE /\ ~b.mean.nan
         /\ ~b.std.nan
         /\ LET d == rating * b.mean.den - b.mean.num
            IN d * d * b.std.den > 4 * b.std.num * b.mean.den * b.mean.den

\* C10: both paths decide by one rule: with std_dev = 0 the verdict is
\* |rating| > 2.0, otherwise |rating - mean| > 2.0 * std_dev, both strict.
C10_SameRule ==
    /\ cIngest # <<>> => cIngest[1] = TwoSigma(cRating, cBase)
    /\ cBatch # <<>> => cBatch[1] = TwoSigma(cRating, cBase)
    /\ (cIngest # <<>> /\ cBatch # <<>>) => cIngest = cBatch

\* a rating exactly two standard deviations from the mean, judged normal by both
C10_Witness ==
    /\ cIngest = <<FALSE>>
    /\ cBatch = <<FALSE>>
    /\ ~cBase.std.nan /\ cBase.std.num > 0
    /\ LET d == cRating * cBase.mean.den - cBase.mean.num
       IN d * d * cBase.std.den = 4 * cBase.std.num * cBase.mean.den * cBase.mean.den

\* no row stored before row i of the table has the source of row i
FirstOfSource(table, i) ==
    \A j \in 1..(i - 1) : table[j].source # table[i].source

\* C11: when add_interaction returns a verdict for a sample whose source has no
\* row stored before it as source, the verdict is |rating| > 2.0, whatever
\* else the table holds.
C11_FirstSampleFixedThreshold ==
    (IngestOk /\ FirstOfSource(log, out.row)) =>
        out.response.is_anomaly = (Abs(log[out.row].rating) > FIXED_THRESHOLD)

\* C12: a successful get_all_interactions returns the rows of the table as they
\* are at its query, one record per row in order, each with the source, target,
\* rating and timestamp of the row and its stored marker; a failed one returns
\* the empty sequence.
C12_ListIsTheTable ==
    (out.op = "get_all_interactions") =>
        IF out.result.tag = "Ok"
        THEN /\ out.rows = log
             /\ Len(out.response) = Len(log)
             /\ \A i \in 1..Len(log) :
                   /\ out.response[i].source = log[i].source
                   /\ out.response[i].target = log[i].target
                   /\ out.response[i].rating = log[i].rating
                   /\ out.response[i].timestamp = log[i].timestamp
                   /\ out.response[i].anomaly = log[i].anomaly
        ELSE out.response = <<>>

C12_Witness ==
    /\ out.op = "get_all_interactions"
    /\ out.result.tag = "Ok"
    /\ Busy
    /\ Len(out.response) = 2
    /\ out.response[1].source # out.response[1].target
    /\ out.response[1].timestamp # out.response[2].timestamp
    /\ out.response[1].rating # out.response[2].rating

\* the request of row i was answered with a verdict
Judged(i) == told[i].seen > 0
\* the position of row j among the rows of its source
Rank(j) == Cardinality({k \in 1..j : log[k].source = log[j].source})
\* rows i and j have one source, and the ratings the request of row i read
\* include the rating of row j
InBaseline(i, j) == told[i].seen >= Rank(j)
\* the requests of rows i and j were both between INSERT and SELECT at one time
Concurrent(i, j) == i \in told[j].with \/ j \in told[i].with
\* two rows of one source, both answered with a verdict
JudgedPairs ==
    {p \in (1..Len(told)) \X (1..Len(told)) :
        /\ p[1] < p[2]
        /\ log[p[1]].source = log[p[2]].source
        /\ Judged(p[1]) /\ Judged(p[2])}

C14_NoEmptyDivision ==
    /\ StatsOk =>
          \A e \in (DOMAIN out.graph.adj_map) \cap (DOMAIN out.graph.node_stats) :
              /\ out.graph.node_stats[e].count >= 1
              /\ ~mean(out.graph.node_stats[e]).nan
    /\ IngestOk =>
          /\ FoldRatings(out.rows, DefaultStats).count >= 1
          /\ ~IngestMean(FoldRatings(out.rows, DefaultStats)).nan

C14_Witness ==
    /\ IngestOk
    /\ out.row = 2
    /\ FoldRatings(out.rows, DefaultStats).count = 1
    /\ log[1].target = log[2].source

\* how many rows of the snapshot have entity e as source, and as target
AsSource(rows, e) == Cardinality({i \in 1..Len(rows) : rows[i].source = e})
AsTarget(rows, e) == Cardinality({i \in 1..Len(rows) : rows[i].target = e})

\* the sum of f over the entities of S
RECURSIVE SumOver(_, _)
SumOver(S, f) ==
    IF S = {} THEN 0
    ELSE LET e == CHOOSE x \in S : TRUE IN f[e] + SumOver(S \ {e}, f)

\* the count accumulated for entity e (0 without an entry)
CountOf(ns, e) == IF e \in DOMAIN ns THEN ns[e].count ELSE 0

\* the rows of the snapshot that the two-sigma rule, applied with the
\* statistics of the row's source, judges anomalous
AnomalousBySource(rows, ns) ==
    {i \in 1..Len(rows) :
        BatchVerdict(rows[i].rating, mean(ns[rows[i].source]), std_dev(ns[rows[i].source]))}

\* C15: in get_stats, after the first pass the count of every entity is the
\* number of rows of the snapshot with the entity as source plus the number with
\* it as target (a self-loop row counts twice), the counts add up to twice the
\* number of rows, and the second pass judges each row by the statistics of its
\* source alone.
C15_SourceStatsFromBothEnds ==
    StatsOk =>
        LET ns == out.graph.node_stats
        IN /\ \A e \in Entities :
                 CountOf(ns, e) = AsSource(out.rows, e) + AsTarget(out.rows, e)
           /\ SumOver(Entities, [e \in Entities |-> CountOf(ns, e)]) = 2 * Len(out.rows)
           /\ out.response.anomalous_interactions
                 = Cardinality(AnomalousBySource(out.rows, ns))

C15_Witness ==
    /\ StatsOk
    /\ Len(out.rows) = 2
    /\ out.rows[1].source = out.rows[1].target
    /\ out.rows[2].source # out.rows[2].target
    /\ out.rows[2].target = out.rows[1].source
    /\ out.graph.node_stats[out.rows[1].source].count = 3
    /\ out.response.anomalous_interactions = 1

\* row i of the snapshot of this get_stats run was answered with a verdict by
\* its add_interaction request, and the run counts it with the other verdict
Disagree(i) ==
    /\ i \in 1..Len(out.rows)
    /\ told[i].status \in {"Normal", "Anomaly"}
    /\ (told[i].status = "Anomaly")
         # (i \in AnomalousBySource(out.rows, out.graph.node_stats))

\* C16: add_interaction and get_stats can disagree on a sample (the witness is
\* such a run), and they do so only on different baselines: whenever a
\* successful get_stats counts a row with the verdict opposite to the one its
\* request was answered, the statistics of the row's source in that run hold
\* ratings the request had not read (later rows of the source, or rows in which
\* the source is the target).
C16_DisagreeOnlyOnOtherBaseline ==
    StatsOk =>
        \A i \in 1..Len(out.rows) :
            Disagree(i) =>
                \/ CountOf(out.graph.node_stats, out.rows[i].source) # told[i].seen
                \/ AsTarget(out.rows, out.rows[i].source) > 0

\* a request was answered "Anomaly" and a later get_stats run counts no anomaly
C16_Witness ==
    /\ StatsOk
    /\ ~Busy
    /\ Disagree(1)
    /\ told[1].status = "Anomaly"
    /\ out.response.anomalous_interactions = 0
    /\ out.response.total_interactions = 2

\* the response of the step just taken is a verdict of add_interaction
Verdict(o) == o.op = "add_interaction" /\ o.response.status \in {"Normal", "Anomaly"}

\* C18: when add_interaction answers "Normal" or "Anomaly", the request has run
\* its INSERT and its SELECT, the sample of the request is a row of the table,
\* and the status is "Anomaly" exactly when is_anomaly is true.  (An error status
\* says nothing about the row: the witness is an error answer whose sample is
\* stored.)
C18_VerdictMeansStored ==
    [][Verdict(out') =>
          /\ out'.result.tag = "Ok"
          /\ (out'.response.status = "Anomaly") <=> out'.response.is_anomaly
          /\ \E w \in Workers :
                /\ ipc[w] = "query" /\ ipc'[w] = "idle"
                /\ out'.row = own[w]
                /\ SampleAt(log', own[w], req[w])]_vars

C18_Witness ==
    /\ out.op = "add_interaction"
    /\ out.result.tag = "JoinErr"
    /\ out.response.status = "Task join error: task panicked"
    /\ ~out.response.is_anomaly
    /\ out.row = 2
    /\ Len(log) = 2
    /\ Abs(log[2].rating) > FIXED_THRESHOLD

\* the table of the binary32 harness holds ratings of ExactRatings only
AllExact == \A i \in 1..Len(fl.table) : fl.table[i].rating \in ExactRatings

\* C17 as stated: whatever the order in which get_stats folds the rows of a
\* table and walks its adjacency map, every entity's sum, sum_sq and count and
\* the counts (total, normal, anomalous) are those of the table's own order.
C17_OrderIndependent ==
    (fl.pc = "stats") =>
        \A o \in Orders(SourcesOf(fl.table)) :
            /\ fl.node_stats = F32StatsOf(fl.table, o).node_stats
            /\ fl.counts = F32StatsOf(fl.table, o).counts

\* C17 amended: the count of every entity and the total do not depend on the
\* order of the rows; the counts do not depend on the iteration order of the
\* adjacency map; and where the ratings are small integers, so that every
\* partial sum is exact in f32, sum, sum_sq and the counts are the same for
\* every order of the rows.
C17_OrderIndependentWhereExact ==
    (fl.pc = "stats") =>
        \A o \in Orders(SourcesOf(fl.table)) :
            LET ref == F32StatsOf(fl.table, o)
            IN /\ DOMAIN fl.node_stats = DOMAIN ref.node_stats
               /\ \A e \in DOMAIN fl.node_stats :
                     fl.node_stats[e].count = ref.node_stats[e].count
               /\ fl.counts.total = ref.counts.total
               /\ fl.counts = F32StatsOf(fl.rows, o).counts
               /\ AllExact => (fl.node_stats = ref.node_stats /\ fl.counts = ref.counts)

\* a run on three rows, two of them exchanged, that counts an anomaly where
\* the run on the rows in the order of the table counts none
C17_Witness ==
    /\ fl.pc = "stats"
    /\ Len(fl.table) = 3
    /\ fl.rows # fl.table
    /\ SourcesOf(fl.table) = {1}
    /\ fl.node_stats[1].count = F32StatsOf(fl.table, fl.order).node_stats[1].count
    /\ fl.node_stats[1].sum # F32StatsOf(fl.table, fl.order).node_stats[1].sum
    /\ fl.counts.anomalous = 1
    /\ F32StatsOf(fl.table, fl.order).counts.anomalous = 0

\* C19 as stated: with exactly one rating folded in, std_dev is 0 whatever the
\* rating, in get_stats and in process_interaction, and the rows of such a
\* source are judged by the fixed threshold; and no variance of which the
\* square root is taken is negative.
C19_SingleSampleStdDevZero ==
    /\ (fl.pc = "stats") =>
          /\ \A e \in DOMAIN fl.node_stats :
                /\ fl.node_stats[e].count = 1 => F32IsZero(F32StdDev(fl.node_stats[e]))
                /\ ~F32Gt(F32Zero, F32Variance(fl.node_stats[e]))
          /\ \A i \in 1..Len(fl.rows) :
                LET st == fl.node_stats[fl.rows[i].source]
                IN st.count = 1 =>
                      (F32Verdict(fl.rows[i].rating, F32Mean(st), F32StdDev(st))
                         = F32Gt(F32Abs(fl.rows[i].rating), F32OfInt(FIXED_THRESHOLD)))
    /\ (fl.pc = "verdict") =>
          /\ fl.acc.count = 1 =>
                /\ F32IsZero(fl.std_dev)
                /\ fl.is_anomaly
                     = F32Gt(F32Abs(fl.table[Len(fl.table)].rating), F32OfInt(FIXED_THRESHOLD))
          /\ fl.acc.count > 1 => ~F32Gt(F32Zero, F32Variance(fl.acc))

====
